---------------------------- MODULE Spec2Model ----------------------------
(***************************************************************************)
(* PII Masker: segment-based audio redaction (maskAudioBuffer), PCM16 WAV  *)
(* export (bufferToWav) and the editing session of the App component.      *)
(*                                                                         *)
(* Units.  Times (AudioSegment.start/end, TranscriptWord.start/end) are    *)
(* integers counting ticks of 1/TicksPerSecond seconds.  A sample is an    *)
(* integer numerator over SampleDen, so the float s is num / SampleDen.    *)
(***************************************************************************)
EXTENDS Integers, Sequences, FiniteSets, TLC

VARIABLES
    heap,            \* the AudioBuffers alive, by reference (index)
    originalBuffer,  \* originalBuffer.current: a reference into heap, 0 = null
    segments,        \* the segment list (App state / maskAudioBuffer argument)
    maskedOut,       \* the local `masked`: the buffer maskAudioBuffer just returned
    wav,             \* the locals of a running bufferToWav call
    mode,            \* AppMode
    audioFile,       \* the uploaded File, 0 = null
    audioUrl,        \* the URL the waveform plays
    originalUrl,     \* object URL of the uploaded file
    previewUrl,      \* object URL of the last preview WAV
    isShowingPreview,
    transcript,      \* TranscriptWord[]
    omittedWordList, \* string[]
    inflight         \* the async handlers that are suspended at an await

app == <<mode, audioFile, audioUrl, originalUrl, previewUrl, isShowingPreview,
         transcript, omittedWordList, inflight>>

vars == <<heap, originalBuffer, segments, maskedOut, wav, app>>

----------------------------------------------------------------------------
(* Bounds and units *)

TicksPerSecond == 100
SampleDen == 6
MaxLength == 2
MaxTick == 5

ChannelCounts == {1, 2}
MaskSampleRates == {50, 150}
MaskSamples == {0, 5}
Ticks == (0 - 1) .. MaxTick

NoBuffer == [sampleRate |-> 0, numberOfChannels |-> 0, length |-> 0, data |-> <<>>]

Min(a, b) == IF a < b THEN a ELSE b
Max(a, b) == IF a > b THEN a ELSE b

\* sequences over S of length exactly n
SeqsOfLen(S, n) == [1..n -> S]

AudioBuffer(sr, ch, len, d) ==
    [sampleRate |-> sr, numberOfChannels |-> ch, length |-> len, data |-> d]

BuffersOver(rates, chans, maxLen, samples) ==
    UNION { UNION { { AudioBuffer(sr, ch, len, d) :
                        d \in SeqsOfLen(SeqsOfLen(samples, len), ch), sr \in rates }
                    : len \in 0..maxLen } : ch \in chans }

AudioSegment(id, start, end, label, type) ==
    [id |-> id, start |-> start, end |-> end, label |-> label, type |-> type]

NullUrl == [kind |-> "null", file |-> 0]
FileUrl(f) == [kind |-> "file", file |-> f]
WavUrl == [kind |-> "wav", file |-> 0]

\* the App state right after the component is constructed
AppUnused ==
    /\ mode = "IDLE"
    /\ audioFile = 0
    /\ audioUrl = NullUrl
    /\ originalUrl = NullUrl
    /\ previewUrl = NullUrl
    /\ isShowingPreview = FALSE
    /\ transcript = <<>>
    /\ omittedWordList = <<>>
    /\ inflight = {}

----------------------------------------------------------------------------
(* maskAudioBuffer *)

\* a conversion that rounds up instead of down
FrameCeil(time, sampleRate) == 0 - ((0 - time * sampleRate) \div TicksPerSecond)

\* Math.floor(time * sampleRate), time in ticks
Frame(time, sampleRate) == (time * sampleRate) \div TicksPerSecond

\* a loop that stops one frame early (i < endFrame - 1)
SilenceSegmentShort(maskedData, segment, sampleRate) ==
    LET startFrame == (segment.start * sampleRate) \div TicksPerSecond
        endFrame   == (segment.end * sampleRate) \div TicksPerSecond
    IN  [k \in 1..Len(maskedData) |->
            IF startFrame <= k - 1 /\ k - 1 < endFrame - 1 THEN 0 ELSE maskedData[k]]

\* a loop that runs one frame too far (i <= endFrame)
SilenceSegmentLong(maskedData, segment, sampleRate) ==
    LET startFrame == (segment.start * sampleRate) \div TicksPerSecond
        endFrame   == (segment.end * sampleRate) \div TicksPerSecond
    IN  [k \in 1..Len(maskedData) |->
            IF startFrame <= k - 1 /\ k - 1 <= endFrame THEN 0 ELSE maskedData[k]]

\* the inner for loop: i from startFrame to endFrame - 1, writing 0 where
\* 0 <= i < maskedData.length (i is 0-based, the sequence is 1-based)
SilenceSegment(maskedData, segment, sampleRate) ==
    LET startFrame == Frame(segment.start, sampleRate)
        endFrame   == Frame(segment.end, sampleRate)
    IN  [k \in 1..Len(maskedData) |->
            IF startFrame <= k - 1 /\ k - 1 < endFrame
               /\ k - 1 >= 0 /\ k - 1 < Len(maskedData)
            THEN 0 ELSE maskedData[k]]

\* segments.forEach(...)
RECURSIVE ApplySilencing(_, _, _)
ApplySilencing(maskedData, segs, sampleRate) ==
    IF segs = <<>> THEN maskedData
    ELSE ApplySilencing(SilenceSegment(maskedData, Head(segs), sampleRate),
                        Tail(segs), sampleRate)

\* audioContext.createBuffer: a fresh zero-filled buffer
createBuffer(h, numberOfChannels, length, sampleRate) ==
    [heap |-> Append(h, AudioBuffer(sampleRate, numberOfChannels, length,
                                    [c \in 1..numberOfChannels |-> [k \in 1..length |-> 0]])),
     ref  |-> Len(h) + 1]

AllocMaskedInPlace(h, original) == [heap |-> h, ref |-> original]

\* const maskedBuffer = audioContext.createBuffer(...)
AllocMasked(h, original) ==
    createBuffer(h, h[original].numberOfChannels, h[original].length,
                 h[original].sampleRate)

\* one iteration of the channel loop, on the heap
MaskChannel(h, original, masked, segs, channel) ==
    LET copied == [h EXCEPT ![masked].data[channel] = h[original].data[channel]]
    IN  [copied EXCEPT ![masked].data[channel] =
            ApplySilencing(copied[masked].data[channel], segs,
                           copied[original].sampleRate)]

RECURSIVE MaskChannels(_, _, _, _, _)
MaskChannels(h, original, masked, segs, channel) ==
    IF channel > h[original].numberOfChannels THEN h
    ELSE MaskChannels(MaskChannel(h, original, masked, segs, channel),
                      original, masked, segs, channel + 1)

\* returns the heap after the call and the reference of the returned buffer
maskAudioBuffer(h, original, segs) ==
    LET a == AllocMasked(h, original)
    IN  [heap |-> MaskChannels(a.heap, original, a.ref, segs, 1), ref |-> a.ref]

----------------------------------------------------------------------------
(* bufferToWav *)

HeaderSize == 44
NegativeScale == 32768
PositiveScale == 32767

NoWav == [pc |-> "idle"]

\* byte j (0-based) of a big-endian write (littleEndian = false)
ByteOfBE(data, size, j) == (data \div (256 ^ (size - 1 - j))) % 256

\* byte j (0-based) of the size bytes that setUint32 / setUint16 / setInt16
\* store with littleEndian = true: the low-order bytes of data (two's
\* complement), least significant first
ByteOf(data, size, j) == (data \div (256 ^ j)) % 256

\* view.setUint16(at, data, true) / view.setInt16(at, data, true) on a 1-based view
SetUint(view, at, size, data) ==
    [k \in 1..Len(view) |->
        IF at < k /\ k <= at + size THEN ByteOf(data, size, k - at - 1) ELSE view[k]]

\* the header writes in order, each as <<size, value>>; pos is 40 when the
\* last one (length - pos - 4) is evaluated
HeaderFields(buffer, length) ==
    LET numOfChan == buffer.numberOfChannels
    IN  << <<4, 1179011410>>,                         \* 0x46464952 "RIFF"
           <<4, length - 8>>,
           <<4, 1163280727>>,                         \* 0x45564157 "WAVE"
           <<4, 544501094>>,                          \* 0x20746d66 "fmt "
           <<4, 16>>,
           <<2, 1>>,
           <<2, numOfChan>>,
           <<4, buffer.sampleRate>>,
           <<4, buffer.sampleRate * 2 * numOfChan>>,
           <<2, numOfChan * 2>>,
           <<2, 16>>,
           <<4, 1635017060>>,                         \* 0x61746164 "data"
           <<4, length - 40 - 4>> >>

\* the bytes that writing fields n, n + 1, ... one after the other produces:
\* each setUint32 / setUint16 writes at pos and advances pos by its size
RECURSIVE FieldBytes(_, _)
FieldBytes(fields, n) ==
    IF n > Len(fields) THEN <<>>
    ELSE [j \in 1..fields[n][1] |-> ByteOf(fields[n][2], fields[n][1], j - 1)]
            \o FieldBytes(fields, n + 1)

\* the view after the header writes from pos 0, and the pos they leave
WriteFields(view, fields) ==
    LET written == FieldBytes(fields, 1)
    IN  [view |-> written \o SubSeq(view, Len(written) + 1, Len(view)),
         pos  |-> Len(written)]

FileLengthNoWidth(buffer) == buffer.length * buffer.numberOfChannels + HeaderSize

\* const length = buffer.length * numOfChan * 2 + 44
FileLength(buffer) == buffer.length * buffer.numberOfChannels * 2 + HeaderSize

\* Math.max(-1, Math.min(1, s)) on the numerator of s
Clamp(num) == Max(0 - SampleDen, Min(SampleDen, num))

\* the number conversion of DataView.setInt16: the fraction is dropped
\* (truncation toward zero), then the value is taken modulo 2^16
ToInt16(num, den) ==
    LET t == IF num >= 0 THEN num \div den ELSE 0 - ((0 - num) \div den)
    IN  ((t + 32768) % 65536) - 32768

\* a conversion that rounds to the nearest integer, as Math.round does
QuantizeRounded(num) ==
    LET c == Clamp(num)
        scaled == IF c < 0 THEN c * NegativeScale ELSE c * PositiveScale
    IN  (2 * scaled + SampleDen) \div (2 * SampleDen)

\* lines 212-214: clamp, scale, and the 16-bit integer setInt16 stores
Quantize(num) ==
    LET c == Clamp(num)
        scaled == IF c < 0 THEN c * NegativeScale ELSE c * PositiveScale
    IN  ToInt16(scaled, SampleDen)

\* channel-major reading: channels[offset][i]
ReadSamplePlanar(buffer, i, offset) ==
    IF offset < Len(buffer.data) /\ i < buffer.length
    THEN [defined |-> TRUE, num |-> buffer.data[offset + 1][i + 1]]
    ELSE [defined |-> FALSE, num |-> 0]

\* channels[i][offset]: undefined past the end of the channel's array
ReadSample(buffer, i, offset) ==
    IF offset < buffer.length
    THEN [defined |-> TRUE, num |-> buffer.data[i + 1][offset + 1]]
    ELSE [defined |-> FALSE, num |-> 0]

\* lines 180-208: allocation, header, channel arrays
WavBegin(buffer) ==
    LET length == FileLength(buffer)
        w == WriteFields([k \in 1..length |-> 0], HeaderFields(buffer, length))
    IN  [pc |-> "while", buffer |-> buffer, length |-> length, view |-> w.view,
         pos |-> w.pos, offset |-> 0, i |-> 0, readPastEnd |-> FALSE]

\* line 210: the loop test
WavWhileStep(w) ==
    IF w.pos < w.length THEN [w EXCEPT !.pc = "for", !.i = 0]
    ELSE [w EXCEPT !.pc = "done"]

\* lines 211-217: one pass of the for loop, or its exit and offset++
WavForStep(w) ==
    IF w.i < w.buffer.numberOfChannels
    THEN LET s == ReadSample(w.buffer, w.i, w.offset)
             \* NaN is stored as 0
             v == IF s.defined THEN Quantize(s.num) ELSE 0
         IN  IF w.pos + 2 > Len(w.view)
             THEN [w EXCEPT !.pc = "RangeError"]
             ELSE [w EXCEPT !.view = SetUint(w.view, w.pos, 2, v),
                            !.pos = w.pos + 2, !.i = w.i + 1,
                            !.readPastEnd = w.readPastEnd \/ ~s.defined]
    ELSE [w EXCEPT !.pc = "while", !.offset = w.offset + 1]

----------------------------------------------------------------------------
(* Specification of bufferToWav, one step per loop test and loop pass *)

WavChannelCounts == {0, 1, 2}
WavSampleRates == {44100}
WavSamples == {0 - SampleDen - 1, 0 - 2, SampleDen \div 2, SampleDen + 1}
WavBuffers == BuffersOver(WavSampleRates, WavChannelCounts, MaxLength, WavSamples)

InitWav ==
    /\ heap \in { <<b>> : b \in WavBuffers }
    /\ originalBuffer = 1
    /\ segments = <<>>
    /\ maskedOut = NoBuffer
    /\ wav = NoWav
    /\ AppUnused

WavCall ==
    /\ wav.pc = "idle"
    /\ wav' = WavBegin(heap[1])
    /\ UNCHANGED <<heap, originalBuffer, segments, maskedOut, app>>

WavWhile ==
    /\ wav.pc = "while"
    /\ wav' = WavWhileStep(wav)
    /\ UNCHANGED <<heap, originalBuffer, segments, maskedOut, app>>

WavFor ==
    /\ wav.pc = "for"
    /\ wav' = WavForStep(wav)
    /\ UNCHANGED <<heap, originalBuffer, segments, maskedOut, app>>

NextWav == WavCall \/ WavWhile \/ WavFor

SpecWav == InitWav /\ [][NextWav]_vars

\* the call runs to completion once started: JavaScript does not preempt it
FairSpecWav == SpecWav /\ WF_vars(NextWav)

----------------------------------------------------------------------------
(* Specification of maskAudioBuffer as a function of its arguments *)

MaskBuffers == BuffersOver(MaskSampleRates, ChannelCounts, MaxLength, MaskSamples)

MaskSegments ==
    { AudioSegment("r", s, e, "Manual Segment", "manual") : s \in Ticks, e \in Ticks }

MaskSegmentLists ==
    {<<>>} \cup { <<a>> : a \in MaskSegments }
           \cup { <<a, b>> : a \in MaskSegments, b \in MaskSegments }

InitMask ==
    /\ heap \in { <<b>> : b \in MaskBuffers }
    /\ originalBuffer = 1
    /\ segments \in MaskSegmentLists
    /\ maskedOut = NoBuffer
    /\ wav = NoWav
    /\ AppUnused

MaskCall ==
    /\ maskedOut = NoBuffer
    /\ LET r == maskAudioBuffer(heap, originalBuffer, segments)
       IN  /\ maskedOut' = r.heap[r.ref]
           /\ heap' = <<r.heap[originalBuffer]>>
    /\ UNCHANGED <<originalBuffer, segments, wav, app>>

NextMask == MaskCall

SpecMask == InitMask /\ [][NextMask]_vars

----------------------------------------------------------------------------
(* The editing session: the App component and the waveform widget's events *)

MaxFiles == 2
MaxSegments == 2
MaxInflight == 1

Files == 1..MaxFiles

\* thresholds of isWordRedacted (0.02 s) and handleTranscriptWordClick (0.05 s), in ticks
MinOverlap == (2 * TicksPerSecond) \div 100
CloseEnough == (5 * TicksPerSecond) \div 100

Abs(x) == IF x < 0 THEN 0 - x ELSE x

\* what decodeAudioData yields for file f: 50 Hz, f channels, 4 frames
DecodedBuffer(f) ==
    AudioBuffer(50, f, 4, [c \in 1..f |-> [k \in 1..4 |-> c + k]])

TranscriptWord(text, start, end) == [text |-> text, start |-> start, end |-> end]
PIIItem(word, reason, start, end) ==
    [word |-> word, reason |-> reason, start |-> start, end |-> end]

\* texts are tuples of letters
WordA == <<"a">>
WordAB == <<"a", "b">>
SearchWords == {WordA, WordAB}

\* what detectPII can resolve to when it is not empty
DetectResults ==
    { [detections |-> <<PIIItem(WordAB, "name", 2, 8)>>,
       transcript |-> <<TranscriptWord(WordA, 0, 2), TranscriptWord(WordAB, 2, 8)>>],
      [detections |-> <<>>,
       transcript |-> <<TranscriptWord(WordAB, 2, 8)>>] }

\* what findSpecificWords can resolve to for a word
SearchResults(word) ==
    { <<>>, <<PIIItem(word, "User Specified", 3, 7)>> }

\* the (start, end) a drag on the waveform can give a region
RegionSpans == { <<4, 6>> }

IdsOf(segs) == { segs[n].id : n \in 1..Len(segs) }

\* the k-th id no segment of the list has (ids come from Date.now(),
\* Math.random() and the regions plugin; only their being new matters)
RECURSIVE FreshId(_, _)
FreshId(segs, k) ==
    LET free == CHOOSE i \in 1..(Len(segs) + 1) : i \notin IdsOf(segs)
    IN  IF k = 1 THEN free
        ELSE FreshId(Append(segs, [id |-> free]), k - 1)

\* what maskAudioBuffer reads of the segments an async handler's closure holds
Spans(segs) == [n \in 1..Len(segs) |-> [start |-> segs[n].start, end |-> segs[n].end]]

\* the slot a newly suspended handler takes: two calls with equal arguments
\* are two suspended handlers
FreeSlot ==
    CHOOSE n \in 1..(Cardinality(inflight) + 1) :
        /\ \A o \in inflight : o.n # n
        /\ \A m \in 1..(n - 1) : \E o \in inflight : o.n = m

\* what no closure holds
NoClosure == [audioFile |-> 0, segments |-> <<>>]

\* a handler suspended at an await: its arguments, the segments its closure
\* reads later (preview, export) and, for an upload, the audioFile and segments
\* of the render the handler was created in
Op(op, file, word, segs) ==
    [op |-> op, file |-> file, word |-> word, segs |-> segs, n |-> FreeSlot,
     before |-> IF op = "upload"
                THEN [audioFile |-> audioFile, segments |-> segments]
                ELSE NoClosure]

\* the editing panel (and with it the waveform and the buttons) is rendered
PanelShown == mode \in {"EDITING", "PROCESSING", "LOADING"}

\* handleFileUpload up to its first await
UploadStart(file) ==
    /\ mode = "IDLE" \/ audioFile # 0
    /\ mode' = "LOADING"
    /\ audioFile' = file
    /\ originalUrl' = FileUrl(file)
    /\ audioUrl' = FileUrl(file)
    /\ previewUrl' = NullUrl
    /\ isShowingPreview' = FALSE
    /\ segments' = <<>>
    /\ transcript' = <<>>
    /\ omittedWordList' = <<>>
    /\ inflight' = inflight \cup {Op("upload", file, <<>>, <<>>)}
    /\ UNCHANGED <<heap, originalBuffer, wav>>
    /\ maskedOut' = NoBuffer

\* handleFileUpload after decodeAudioData resolved
UploadDecoded(o) ==
    /\ o \in inflight /\ o.op = "upload"
    /\ heap' = <<DecodedBuffer(o.file)>>
    /\ originalBuffer' = 1
    /\ mode' = "EDITING"
    /\ inflight' = inflight \ {o}
    /\ UNCHANGED <<segments, wav, audioFile, audioUrl, originalUrl,
                   previewUrl, isShowingPreview, transcript, omittedWordList>>
    /\ maskedOut' = NoBuffer

\* handleFileUpload's catch: arrayBuffer() or decodeAudioData rejected
UploadFailed(o) ==
    /\ o \in inflight /\ o.op = "upload"
    /\ mode' = "IDLE"
    /\ inflight' = inflight \ {o}
    /\ UNCHANGED <<heap, originalBuffer, segments, wav, audioFile, audioUrl,
                   originalUrl, previewUrl, isShowingPreview, transcript, omittedWordList>>
    /\ maskedOut' = NoBuffer

\* handleAutomatedAnalysis up to its first await; the button is disabled while PROCESSING
AnalysisStart ==
    /\ PanelShown /\ mode # "PROCESSING"
    /\ audioFile # 0
    /\ mode' = "PROCESSING"
    /\ inflight' = inflight \cup {Op("analysis", audioFile, <<>>, <<>>)}
    /\ UNCHANGED <<heap, originalBuffer, segments, wav, audioFile, audioUrl,
                   originalUrl, previewUrl, isShowingPreview, transcript, omittedWordList>>
    /\ maskedOut' = NoBuffer

\* result.detections.map(...): ids ai-auto-<timestamp>-<i>
RECURSIVE DetectionSegments(_, _, _)
DetectionSegments(detections, segs, i) ==
    IF i > Len(detections) THEN <<>>
    ELSE <<AudioSegment(FreshId(segs, i), detections[i].start, detections[i].end,
                        [kind |-> "AI", word |-> detections[i].word], "AI")>>
         \o DetectionSegments(detections, segs, i + 1)

IsNotAI(p) == p.type # "AI"

\* handleAutomatedAnalysis after detectPII resolved with a result that is not empty
AnalysisSucceeded(o, result) ==
    /\ o \in inflight /\ o.op = "analysis"
    /\ LET filtered == SelectSeq(segments, IsNotAI)
       IN  /\ Len(filtered) + Len(result.detections) <= MaxSegments
           /\ segments' = filtered \o DetectionSegments(result.detections, segments, 1)
    /\ transcript' = result.transcript
    /\ mode' = "EDITING"
    /\ inflight' = inflight \ {o}
    /\ UNCHANGED <<heap, originalBuffer, wav, audioFile, audioUrl,
                   originalUrl, previewUrl, isShowingPreview, omittedWordList>>
    /\ maskedOut' = NoBuffer

\* handleAutomatedAnalysis's catch: fileToBase64 or detectPII rejected, or the
\* result was empty
AnalysisFailed(o) ==
    /\ o \in inflight /\ o.op = "analysis"
    /\ mode' = "EDITING"
    /\ inflight' = inflight \ {o}
    /\ UNCHANGED <<heap, originalBuffer, segments, wav, audioFile, audioUrl,
                   originalUrl, previewUrl, isShowingPreview, transcript, omittedWordList>>
    /\ maskedOut' = NoBuffer

InList(list, x) == \E n \in 1..Len(list) : list[n] = x

\* addManualWordMask up to its first await (Enter in the input is not disabled)
SearchStart(word) ==
    /\ PanelShown
    /\ audioFile # 0
    /\ ~InList(omittedWordList, word)
    /\ mode' = "PROCESSING"
    /\ inflight' = inflight \cup {Op("search", audioFile, word, <<>>)}
    /\ UNCHANGED <<heap, originalBuffer, segments, wav, audioFile, audioUrl,
                   originalUrl, previewUrl, isShowingPreview, transcript, omittedWordList>>
    /\ maskedOut' = NoBuffer

\* detections.map(...): ids ai-word-<timestamp>-<i>, label Omit: <word>
RECURSIVE WordSegments(_, _, _, _)
WordSegments(detections, word, segs, i) ==
    IF i > Len(detections) THEN <<>>
    ELSE <<AudioSegment(FreshId(segs, i), detections[i].start, detections[i].end,
                        [kind |-> "Omit", word |-> word], "AI")>>
         \o WordSegments(detections, word, segs, i + 1)

\* addManualWordMask after findSpecificWords resolved
SearchResolved(o, detections) ==
    /\ o \in inflight /\ o.op = "search"
    /\ IF Len(detections) = 0
       THEN UNCHANGED <<segments, omittedWordList>>
       ELSE /\ Len(segments) + Len(detections) <= MaxSegments
            /\ segments' = segments \o WordSegments(detections, o.word, segments, 1)
            /\ omittedWordList' = Append(omittedWordList, o.word)
    /\ mode' = "EDITING"
    /\ inflight' = inflight \ {o}
    /\ UNCHANGED <<heap, originalBuffer, wav, audioFile, audioUrl,
                   originalUrl, previewUrl, isShowingPreview, transcript>>
    /\ maskedOut' = NoBuffer

\* addManualWordMask's catch and finally
SearchFailed(o) ==
    /\ o \in inflight /\ o.op = "search"
    /\ mode' = "EDITING"
    /\ inflight' = inflight \ {o}
    /\ UNCHANGED <<heap, originalBuffer, segments, wav, audioFile, audioUrl,
                   originalUrl, previewUrl, isShowingPreview, transcript, omittedWordList>>
    /\ maskedOut' = NoBuffer

\* prefix test on texts: `Omit: ${x}` is a substring of `Omit: ${y}`
IsPrefix(x, y) == Len(x) <= Len(y) /\ SubSeq(y, 1, Len(x)) = x

\* s.label.includes(`Omit: ${word}`)
LabelIncludesOmit(label, word) == label.kind = "Omit" /\ IsPrefix(word, label.word)

removeOmittedWord(word) ==
    /\ PanelShown
    /\ InList(omittedWordList, word)
    /\ omittedWordList' = SelectSeq(omittedWordList, LAMBDA w : w # word)
    /\ segments' = SelectSeq(segments, LAMBDA sg : ~LabelIncludesOmit(sg.label, word))
    /\ UNCHANGED <<heap, originalBuffer, wav, mode, audioFile, audioUrl,
                   originalUrl, previewUrl, isShowingPreview, transcript, inflight>>
    /\ maskedOut' = NoBuffer

\* the Preview button: disabled without segments and while PROCESSING
PreviewButtonEnabled == PanelShown /\ Len(segments) > 0 /\ mode # "PROCESSING"

\* handlePreviewMasked while the preview is shown: back to the original audio
RevertToOriginal ==
    /\ PreviewButtonEnabled
    /\ originalBuffer # 0
    /\ isShowingPreview
    /\ audioUrl' = originalUrl
    /\ isShowingPreview' = FALSE
    /\ UNCHANGED <<heap, originalBuffer, segments, wav, mode, audioFile,
                   originalUrl, previewUrl, transcript, omittedWordList, inflight>>
    /\ maskedOut' = NoBuffer

\* handlePreviewMasked up to its await; the closure holds the rendered segments
PreviewStart ==
    /\ PreviewButtonEnabled
    /\ originalBuffer # 0
    /\ ~isShowingPreview
    /\ mode' = "PROCESSING"
    /\ inflight' = inflight \cup {Op("preview", 0, <<>>, Spans(segments))}
    /\ UNCHANGED <<heap, originalBuffer, segments, wav, audioFile, audioUrl,
                   originalUrl, previewUrl, isShowingPreview, transcript, omittedWordList>>
    /\ maskedOut' = NoBuffer

\* handlePreviewMasked after the 400 ms timer: mask, encode, show the preview.
\* The masked buffer is garbage once the Blob exists: the heap keeps the rest.
PreviewReady(o) ==
    /\ o \in inflight /\ o.op = "preview"
    /\ LET r == maskAudioBuffer(heap, originalBuffer, o.segs)
       IN  /\ maskedOut' = r.heap[r.ref]
           /\ heap' = SubSeq(r.heap, 1, Len(heap))
    /\ previewUrl' = WavUrl
    /\ audioUrl' = WavUrl
    /\ isShowingPreview' = TRUE
    /\ mode' = "EDITING"
    /\ inflight' = inflight \ {o}
    /\ UNCHANGED <<originalBuffer, segments, wav, audioFile, originalUrl, transcript,
                   omittedWordList>>

\* handleExport up to its await
ExportStart ==
    /\ PreviewButtonEnabled
    /\ originalBuffer # 0
    /\ mode' = "PROCESSING"
    /\ inflight' = inflight \cup {Op("export", 0, <<>>, Spans(segments))}
    /\ UNCHANGED <<heap, originalBuffer, segments, wav, audioFile, audioUrl,
                   originalUrl, previewUrl, isShowingPreview, transcript, omittedWordList>>
    /\ maskedOut' = NoBuffer

\* handleExport after the 500 ms timer: mask, encode, download
ExportReady(o) ==
    /\ o \in inflight /\ o.op = "export"
    /\ LET r == maskAudioBuffer(heap, originalBuffer, o.segs)
       IN  /\ maskedOut' = r.heap[r.ref]
           /\ heap' = SubSeq(r.heap, 1, Len(heap))
    /\ mode' = "EDITING"
    /\ inflight' = inflight \ {o}
    /\ UNCHANGED <<originalBuffer, segments, wav, audioFile, audioUrl, originalUrl,
                   previewUrl, isShowingPreview, transcript, omittedWordList>>

\* the trash button of the redaction log
removeSegment(id) ==
    /\ PanelShown
    /\ id \in IdsOf(segments)
    /\ segments' = SelectSeq(segments, LAMBDA sg : sg.id # id)
    /\ UNCHANGED <<heap, originalBuffer, wav, app>>
    /\ maskedOut' = NoBuffer

\* an overlap test that counts an overlap of exactly the threshold
isWordRedactedInclusive(segs, start, end) ==
    \E n \in 1..Len(segs) :
        Min(end, segs[n].end) - Max(start, segs[n].start) >= MinOverlap

\* isWordRedacted over the rendered segments
isWordRedacted(segs, start, end) ==
    \E n \in 1..Len(segs) :
        LET overlapStart == Max(start, segs[n].start)
            overlapEnd   == Min(end, segs[n].end)
        IN  overlapEnd - overlapStart > MinOverlap

\* segments.find(...) of handleTranscriptWordClick: the index of the first
\* manual segment whose start and end are both within 0.05 s of the word's, 0 if none
ExistingManualSegment(segs, word) ==
    LET hits == { n \in 1..Len(segs) :
                    /\ segs[n].type = "manual"
                    /\ Abs(segs[n].start - word.start) < CloseEnough
                    /\ Abs(segs[n].end - word.end) < CloseEnough }
    IN  IF hits = {} THEN 0 ELSE CHOOSE n \in hits : \A m \in hits : n <= m

\* the segment list handleTranscriptWordClick leaves
WordClickSegments(segs, word) ==
    LET existing == ExistingManualSegment(segs, word)
    IN  IF existing # 0
        THEN SelectSeq(segs, LAMBDA sg : sg.id # segs[existing].id)
        ELSE Append(segs, AudioSegment(FreshId(segs, 1), word.start, word.end,
                                       [kind |-> "Redacted", word |-> word.text],
                                       "manual"))

\* a click on a word of the transcript panel
handleTranscriptWordClick(word) ==
    /\ PanelShown
    /\ InList(transcript, word)
    /\ Len(WordClickSegments(segments, word)) <= MaxSegments
    /\ segments' = WordClickSegments(segments, word)
    /\ UNCHANGED <<heap, originalBuffer, wav, app>>
    /\ maskedOut' = NoBuffer

\* the waveform widget's region-created handler, for a region the user dragged
RegionCreated(start, end) ==
    /\ PanelShown /\ audioUrl # NullUrl
    /\ Len(segments) < MaxSegments
    /\ segments' = Append(segments, AudioSegment(FreshId(segments, 1), start, end,
                                                 [kind |-> "Manual", word |-> <<>>],
                                                 "manual"))
    /\ UNCHANGED <<heap, originalBuffer, wav, app>>
    /\ maskedOut' = NoBuffer

\* the waveform widget's region-updated handler: a region was moved or resized
RegionUpdated(id, start, end) ==
    /\ PanelShown /\ audioUrl # NullUrl
    /\ id \in IdsOf(segments)
    /\ segments' = [n \in 1..Len(segments) |->
                      IF segments[n].id = id
                      THEN [segments[n] EXCEPT !.start = start, !.end = end]
                      ELSE segments[n]]
    /\ UNCHANGED <<heap, originalBuffer, wav, app>>
    /\ maskedOut' = NoBuffer

Init ==
    /\ heap = <<>>
    /\ originalBuffer = 0
    /\ segments = <<>>
    /\ maskedOut = NoBuffer
    /\ wav = NoWav
    /\ AppUnused

\* the model lets an async handler start while fewer than MaxInflight are
\* suspended; the code itself has no such limit
MayStart == Cardinality(inflight) < MaxInflight

Next ==
    \/ \E f \in Files : MayStart /\ UploadStart(f)
    \/ \E o \in inflight : UploadDecoded(o)
    \/ \E o \in inflight : UploadFailed(o)
    \/ MayStart /\ AnalysisStart
    \/ \E o \in inflight, r \in DetectResults : AnalysisSucceeded(o, r)
    \/ \E o \in inflight : AnalysisFailed(o)
    \/ \E w \in SearchWords : MayStart /\ SearchStart(w)
    \/ \E o \in inflight : \E d \in SearchResults(o.word) : SearchResolved(o, d)
    \/ \E o \in inflight : SearchFailed(o)
    \/ \E w \in SearchWords : removeOmittedWord(w)
    \/ RevertToOriginal
    \/ MayStart /\ PreviewStart
    \/ \E o \in inflight : PreviewReady(o)
    \/ MayStart /\ ExportStart
    \/ \E o \in inflight : ExportReady(o)
    \/ \E n \in 1..Len(transcript) : handleTranscriptWordClick(transcript[n])
    \/ \E id \in IdsOf(segments) : removeSegment(id)
    \/ \E sp \in RegionSpans : RegionCreated(sp[1], sp[2])
    \/ \E id \in IdsOf(segments), sp \in RegionSpans : RegionUpdated(id, sp[1], sp[2])

Spec == Init /\ [][Next]_vars

----------------------------------------------------------------------------
(* Properties of maskAudioBuffer (checked under SpecMask) *)

MaskDone == maskedOut # NoBuffer
Original == heap[originalBuffer]
Rate == Original.sampleRate
Channels == 1..Original.numberOfChannels
Indices == 0..(Original.length - 1)
SegmentsOf(list) == { list[n] : n \in 1..Len(list) }

\* the time i / sampleRate of sample index i lies in [seg.start, seg.end)
TimeInSegment(i, seg) ==
    seg.start * Rate <= i * TicksPerSecond /\ i * TicksPerSecond < seg.end * Rate

\* the whole period [i / sampleRate, (i + 1) / sampleRate) lies in [seg.start, seg.end)
PeriodInSegment(i, seg) ==
    seg.start * Rate <= i * TicksPerSecond /\ (i + 1) * TicksPerSecond <= seg.end * Rate

\* the period [i / sampleRate, (i + 1) / sampleRate) and [seg.start, seg.end) are disjoint
PeriodOutsideSegment(i, seg) ==
    \/ seg.start >= seg.end
    \/ (i + 1) * TicksPerSecond <= seg.start * Rate
    \/ i * TicksPerSecond >= seg.end * Rate

\* C1 as stated: every sample index whose time i / sampleRate lies in
\* [start, end) of some segment is 0 in the masked buffer, on every channel.
C1_SilenceByTime ==
    MaskDone =>
        \A c \in Channels, i \in Indices :
            (\E seg \in SegmentsOf(segments) : TimeInSegment(i, seg))
                => maskedOut.data[c][i + 1] = 0

\* C1 amended: every sample index whose whole sample period
\* [i / sampleRate, (i + 1) / sampleRate) lies in [start, end) of some segment
\* is 0 in the masked buffer, on every channel.
C1_SilenceWholePeriods ==
    MaskDone =>
        \A c \in Channels, i \in Indices :
            (\E seg \in SegmentsOf(segments) : PeriodInSegment(i, seg))
                => maskedOut.data[c][i + 1] = 0

\* a non-zero sample whose period lies in a segment has been silenced
C1_Witness ==
    /\ MaskDone
    /\ \E c \in Channels, i \in Indices :
          /\ \E seg \in SegmentsOf(segments) : PeriodInSegment(i, seg)
          /\ Original.data[c][i + 1] # 0
          /\ maskedOut.data[c][i + 1] = 0

\* C2 as stated: every sample index whose time i / sampleRate lies in no
\* segment's [start, end) keeps its original value, on every channel.
C2_UntouchedByTime ==
    MaskDone =>
        \A c \in Channels, i \in Indices :
            (\A seg \in SegmentsOf(segments) : ~TimeInSegment(i, seg))
                => maskedOut.data[c][i + 1] = Original.data[c][i + 1]

\* C2 amended: every sample index whose sample period
\* [i / sampleRate, (i + 1) / sampleRate) meets no segment's [start, end)
\* keeps its original value, on every channel.
C2_UntouchedDisjointPeriods ==
    MaskDone =>
        \A c \in Channels, i \in Indices :
            (\A seg \in SegmentsOf(segments) : PeriodOutsideSegment(i, seg))
                => maskedOut.data[c][i + 1] = Original.data[c][i + 1]

\* a non-zero sample outside every segment is kept while another sample of the
\* same channel is silenced
C2_Witness ==
    /\ MaskDone
    /\ segments # <<>>
    /\ \E c \in Channels, i \in Indices, j \in Indices :
          /\ \A seg \in SegmentsOf(segments) : PeriodOutsideSegment(i, seg)
          /\ Original.data[c][i + 1] # 0
          /\ maskedOut.data[c][i + 1] = Original.data[c][i + 1]
          /\ Original.data[c][j + 1] # 0
          /\ maskedOut.data[c][j + 1] = 0

\* floor(seg.start * sampleRate) <= i < floor(seg.end * sampleRate), stated
\* without the floor: floor(x) <= i iff x < i + 1, and i < floor(y) iff i + 1 <= y
FrameCovered(i, seg) ==
    seg.start * Rate < (i + 1) * TicksPerSecond /\ (i + 1) * TicksPerSecond <= seg.end * Rate

\* the segment lies wholly before time 0 or wholly after the end of the buffer
OutsideBuffer(seg) ==
    seg.end <= 0 \/ seg.start * Rate >= Original.length * TicksPerSecond

\* C3: the masked buffer has the original's channel count, length and sample
\* rate; sample i is 0 iff the original sample is 0 or some segment has
\* floor(start * sampleRate) <= i < floor(end * sampleRate), and otherwise equals
\* the original; an empty list, segments with start >= end and segments wholly
\* outside the buffer leave an exact copy.
C3_MaskedBuffer ==
    MaskDone =>
        /\ maskedOut.numberOfChannels = Original.numberOfChannels
        /\ maskedOut.length = Original.length
        /\ maskedOut.sampleRate = Original.sampleRate
        /\ Len(maskedOut.data) = Original.numberOfChannels
        /\ \A c \in Channels :
              /\ Len(maskedOut.data[c]) = Original.length
              /\ \A i \in Indices :
                    /\ maskedOut.data[c][i + 1] = 0 <=>
                          \/ Original.data[c][i + 1] = 0
                          \/ \E seg \in SegmentsOf(segments) : FrameCovered(i, seg)
                    /\ maskedOut.data[c][i + 1] # 0 =>
                          maskedOut.data[c][i + 1] = Original.data[c][i + 1]
        /\ (\A seg \in SegmentsOf(segments) : seg.start >= seg.end \/ OutsideBuffer(seg))
              => maskedOut = Original

\* a segment reaching past both ends of the buffer silences a non-zero sample,
\* and a buffer with a non-zero sample is copied under a segment outside it
C3_Witness ==
    /\ MaskDone
    /\ \/ \E seg \in SegmentsOf(segments), c \in Channels, i \in Indices :
             /\ seg.start < 0
             /\ seg.end * Rate > Original.length * TicksPerSecond
             /\ Original.data[c][i + 1] # 0
             /\ maskedOut.data[c][i + 1] = 0
       \/ /\ segments # <<>>
          /\ \A seg \in SegmentsOf(segments) : seg.start < seg.end /\ OutsideBuffer(seg)
          /\ \E c \in Channels, i \in Indices : maskedOut.data[c][i + 1] # 0

----------------------------------------------------------------------------
(* Properties of bufferToWav (checked under SpecWav / FairSpecWav) *)

WavDone == wav.pc = "done"

\* what a WAV reader reads: an unsigned little-endian integer of size bytes
ReadUint(view, at, size) ==
    LET RECURSIVE Sum(_)
        Sum(j) == IF j = size THEN 0 ELSE view[at + j + 1] + 256 * Sum(j + 1)
    IN  Sum(0)

\* a signed 16-bit little-endian integer
ReadInt16(view, at) ==
    LET u == ReadUint(view, at, 2) IN IF u >= 32768 THEN u - 65536 ELSE u

\* the clamped sample scaled as the encoder scales it, as a numerator over SampleDen
ScaledNum(num) ==
    LET c == CASE num < 0 - SampleDen -> 0 - SampleDen
               [] num > SampleDen -> SampleDen
               [] OTHER -> num
    IN  IF c < 0 THEN c * 32768 ELSE c * 32767

\* q = round(num / den), to the nearest integer, halves up (Math.round)
RoundsTo(q, num, den) == 2 * q * den <= 2 * num + den /\ 2 * num + den < 2 * (q + 1) * den

\* q = num / den with the fraction dropped
TruncatesTo(q, num, den) ==
    IF num >= 0 THEN q * den <= num /\ num < (q + 1) * den
    ELSE (q - 1) * den < num /\ num <= q * den

\* byte offset of channel c's sample f (both 0-based) in a frame-major data section
SampleOffset(buffer, f, c) == 44 + 2 * (f * buffer.numberOfChannels + c)

\* C5: bufferToWav terminates for every buffer and its output is exactly
\* 44 + numberOfChannels * length * 2 bytes long, also with zero length or
\* zero channels.
C5_TerminatesWithSize ==
    <>(WavDone /\ Len(wav.view) = 44 + heap[1].numberOfChannels * heap[1].length * 2)

\* a finished call on a buffer without channels but with a length: 44 bytes
C5_Witness ==
    /\ WavDone
    /\ heap[1].numberOfChannels = 0
    /\ heap[1].length > 0
    /\ Len(wav.view) = 44

\* C6: the header holds, little-endian, RIFF size = fileLength - 8, fmt size
\* 16, format tag 1, the channel count, the sample rate, byte rate =
\* sampleRate * 2 * channels, block align = 2 * channels, 16 bits per sample
\* and data size = fileLength - 44, fileLength = channels * length * 2 + 44.
C6_Header ==
    wav.pc # "idle" =>
        LET b == heap[1]
            fileLength == b.numberOfChannels * b.length * 2 + 44
        IN  /\ ReadUint(wav.view, 4, 4) = fileLength - 8
            /\ ReadUint(wav.view, 16, 4) = 16
            /\ ReadUint(wav.view, 20, 2) = 1
            /\ ReadUint(wav.view, 22, 2) = b.numberOfChannels
            /\ ReadUint(wav.view, 24, 4) = b.sampleRate
            /\ ReadUint(wav.view, 28, 4) = b.sampleRate * 2 * b.numberOfChannels
            /\ ReadUint(wav.view, 32, 2) = 2 * b.numberOfChannels
            /\ ReadUint(wav.view, 34, 2) = 16
            /\ ReadUint(wav.view, 40, 4) = fileLength - 44

\* a finished stereo file at 44100 Hz whose header parses back
C6_Witness ==
    /\ WavDone
    /\ heap[1].numberOfChannels = 2
    /\ heap[1].length > 0
    /\ ReadUint(wav.view, 24, 4) = 44100
    /\ ReadUint(wav.view, 28, 4) = 176400

\* C7 as stated: every sample is clamped to [-1, 1] and stored as
\* round(s * 32768) if s < 0 and round(s * 32767) otherwise.
C7_Rounded ==
    WavDone =>
        \A c \in 0..(heap[1].numberOfChannels - 1), f \in 0..(heap[1].length - 1) :
            RoundsTo(ReadInt16(wav.view, SampleOffset(heap[1], f, c)),
                     ScaledNum(heap[1].data[c + 1][f + 1]), SampleDen)

\* C7 amended: every sample is clamped to [-1, 1] and stored as s * 32768 if
\* s < 0 and s * 32767 otherwise, with the fraction dropped (truncation
\* toward zero): s = 0.5 is stored as 16383.
C7_Truncated ==
    WavDone =>
        \A c \in 0..(heap[1].numberOfChannels - 1), f \in 0..(heap[1].length - 1) :
            TruncatesTo(ReadInt16(wav.view, SampleOffset(heap[1], f, c)),
                        ScaledNum(heap[1].data[c + 1][f + 1]), SampleDen)

\* a stored sample whose scaled value has a fraction of at least one half, and
\* a sample above 1 stored as 32767
C7_Witness ==
    /\ WavDone
    /\ \E c \in 0..(heap[1].numberOfChannels - 1), f \in 0..(heap[1].length - 1) :
          LET num == ScaledNum(heap[1].data[c + 1][f + 1])
              q   == ReadInt16(wav.view, SampleOffset(heap[1], f, c))
          IN  num > 0 /\ 2 * (num - q * SampleDen) >= SampleDen
    /\ \E c \in 0..(heap[1].numberOfChannels - 1), f \in 0..(heap[1].length - 1) :
          /\ heap[1].data[c + 1][f + 1] > SampleDen
          /\ ReadInt16(wav.view, SampleOffset(heap[1], f, c)) = 32767

\* C8: the data section is frame-major: channel c's sample f is stored at
\* byte offset 44 + 2 * (f * numberOfChannels + c), and no sample index
\* >= length is ever read.
C8_Interleaved ==
    /\ wav.pc # "idle" => ~wav.readPastEnd
    /\ WavDone =>
          \A c \in 0..(heap[1].numberOfChannels - 1), f \in 0..(heap[1].length - 1) :
              ReadInt16(wav.view, SampleOffset(heap[1], f, c))
                  = Quantize(heap[1].data[c + 1][f + 1])

\* a finished stereo file of two frames whose channels differ in both frames
C8_Witness ==
    /\ WavDone
    /\ heap[1].numberOfChannels = 2
    /\ heap[1].length = 2
    /\ heap[1].data[1][1] # heap[1].data[2][1]
    /\ heap[1].data[1][2] # heap[1].data[2][1]
    /\ ReadInt16(wav.view, 46) = Quantize(heap[1].data[2][1])
    /\ ReadInt16(wav.view, 48) = Quantize(heap[1].data[1][2])

----------------------------------------------------------------------------
(* Properties of the editing session (checked under Spec) *)

\* a step that is the decode of an upload: originalBuffer then names another buffer
IsUploadDecoded == \E o \in inflight : UploadDecoded(o)

\* a step that ran maskAudioBuffer
IsMaskingStep == \E o \in inflight : PreviewReady(o) \/ ExportReady(o)

\* C4: masking leaves its result in a buffer other than the decoded original, and
\* no step of the session (preview, revert, export, any edit) changes a sample,
\* the length, the rate or the channel count of the decoded original buffer; it
\* changes only when a newly decoded upload replaces it.
C4_OriginalNeverMutated ==
    [][ /\ IsMaskingStep => heap' = heap
        /\ (originalBuffer # 0 /\ ~IsUploadDecoded) =>
               /\ originalBuffer' = originalBuffer
               /\ heap'[originalBuffer'] = heap[originalBuffer] ]_vars

\* a preview or an export has just produced audio in which a sample that is not
\* zero in the original is silenced
C4_Witness ==
    /\ originalBuffer # 0
    /\ maskedOut # NoBuffer
    /\ \E c \in 1..maskedOut.numberOfChannels, k \in 1..maskedOut.length :
           /\ maskedOut.data[c][k] = 0
           /\ heap[originalBuffer].data[c][k] # 0

\* the instants within the duration of a decoded recording
SessionTicks ==
    0..((DecodedBuffer(1).length * TicksPerSecond) \div DecodedBuffer(1).sampleRate)

\* the length, in ticks, of what [start, end] and [seg.start, seg.end] share:
\* the number of whole ticks lying in both
SharedTicks(start, end, seg) ==
    Cardinality({ t \in SessionTicks :
                    /\ start <= t /\ t + 1 <= end
                    /\ seg.start <= t /\ t + 1 <= seg.end })

\* C9: for every span [start, end] with start < end, isWordRedacted over the current segments is
\* true exactly when some segment shares more than 0.02 s with the span; sharing
\* exactly 0.02 s, touching or being apart does not count.
C9_RedactedIffOverlap ==
    \A start \in SessionTicks, end \in SessionTicks :
        start < end =>
            ( isWordRedacted(segments, start, end)
                <=> \E n \in 1..Len(segments) :
                        SharedTicks(start, end, segments[n]) > MinOverlap )

\* the transcript shows a redacted word next to a word that shares exactly 0.02 s
\* with a segment and is shown as not redacted
C9_Witness ==
    \E i \in 1..Len(transcript), j \in 1..Len(transcript) :
        /\ isWordRedacted(segments, transcript[i].start, transcript[i].end)
        /\ ~isWordRedacted(segments, transcript[j].start, transcript[j].end)
        /\ \E n \in 1..Len(segments) :
               SharedTicks(transcript[j].start, transcript[j].end, segments[n]) = MinOverlap

\* the list is segs with exactly one manual segment of the word's span appended
AppendsManualFor(after, segs, word) ==
    /\ Len(after) = Len(segs) + 1
    /\ SubSeq(after, 1, Len(segs)) = segs
    /\ after[Len(after)].type = "manual"
    /\ after[Len(after)].start = word.start
    /\ after[Len(after)].end = word.end

\* C10: every click on a transcript word that is shown as not redacted appends
\* exactly one manual segment with the word's start and end and neither removes
\* nor changes any segment.
C10_ClickUnredactedAppends ==
    [][ \A n \in 1..Len(transcript) :
            ( /\ handleTranscriptWordClick(transcript[n])
              /\ ~isWordRedacted(segments, transcript[n].start, transcript[n].end) )
            => AppendsManualFor(segments', segments, transcript[n]) ]_vars

\* a word shown as not redacted has a manual segment within 0.05 s of both its bounds
C10_Witness ==
    \E n \in 1..Len(transcript) :
        /\ ~isWordRedacted(segments, transcript[n].start, transcript[n].end)
        /\ ExistingManualSegment(segments, transcript[n]) # 0

\* the segments of a list with the given type
OfType(segs, type) == SelectSeq(segs, LAMBDA sg : sg.type = type)

\* the segment is one of the list (same id, bounds, label and type)
Member(segs, sg) == \E n \in 1..Len(segs) : segs[n] = sg

\* the word is covered by AI segments and by no manual segment, where a segment
\* covers a word that it overlaps by more than 0.02 s
CoveredOnlyByAI(segs, word) ==
    /\ isWordRedacted(OfType(segs, "AI"), word.start, word.end)
    /\ ~isWordRedacted(OfType(segs, "manual"), word.start, word.end)

\* C11: on every click on a transcript word, a segment that leaves the list is
\* manual with start and end within 0.05 s of the word's, and then it is the only
\* one to leave and none is added; every AI segment stays as it was; and when the
\* word is covered only by AI segments the click appends a manual segment with
\* the word's bounds.
C11_ClickRemovesOnlyCloseManual ==
    [][ \A n \in 1..Len(transcript) :
            handleTranscriptWordClick(transcript[n]) =>
                LET word == transcript[n]
                    gone == { k \in 1..Len(segments) : ~Member(segments', segments[k]) }
                IN  /\ \A k \in gone :
                           /\ segments[k].type = "manual"
                           /\ Abs(segments[k].start - word.start) < CloseEnough
                           /\ Abs(segments[k].end - word.end) < CloseEnough
                    /\ gone # {} =>
                           /\ Cardinality(gone) = 1
                           /\ Len(segments') = Len(segments) - 1
                           /\ \A k \in 1..Len(segments') : Member(segments, segments'[k])
                    /\ \A k \in 1..Len(segments) :
                           segments[k].type = "AI" => Member(segments', segments[k])
                    /\ CoveredOnlyByAI(segments, word) =>
                           AppendsManualFor(segments', segments, word) ]_vars

\* a word covered only by an AI segment has a manual segment within 0.05 s of
\* both its bounds
C11_Witness ==
    \E n \in 1..Len(transcript) :
        /\ CoveredOnlyByAI(segments, transcript[n])
        /\ ExistingManualSegment(segments, transcript[n]) # 0

\* a step in which the detection service failed or came back with nothing: the
\* analysis threw or returned no detections, the word search threw or found nothing
IsServiceFailureOrEmpty ==
    \E o \in inflight :
        \/ AnalysisFailed(o)
        \/ \E r \in DetectResults : Len(r.detections) = 0 /\ AnalysisSucceeded(o, r)
        \/ SearchResolved(o, <<>>)
        \/ SearchFailed(o)

\* C12: every step in which an automated analysis or a word search ends with a
\* failure or with nothing found leaves the segment list and the omitted-word list
\* as they were and sets the mode to EDITING.
C12_FailureLeavesLists ==
    [][ IsServiceFailureOrEmpty =>
            /\ segments' = segments
            /\ omittedWordList' = omittedWordList
            /\ mode' = "EDITING" ]_vars

\* an automated analysis is in flight while the list holds a segment of type AI
C12_Witness ==
    /\ \E o \in inflight : o.op = "analysis"
    /\ Len(OfType(segments, "AI")) > 0

\* C13: every step in which the decode of an upload fails leaves the audio file
\* and the segment list the session had when the upload started, and an original
\* buffer that is the decoded audio of the session's audio file.
C13_DecodeFailureRestores ==
    [][ \A o \in inflight :
            UploadFailed(o) =>
                /\ audioFile' = o.before.audioFile
                /\ segments' = o.before.segments
                /\ originalBuffer' # 0 =>
                       heap'[originalBuffer'] = DecodedBuffer(audioFile') ]_vars

\* after a failed decode the session shows one file and holds the buffer of another
C13_Witness ==
    /\ mode = "IDLE" /\ inflight = {}
    /\ originalBuffer # 0 /\ audioFile # 0
    /\ heap[originalBuffer] # DecodedBuffer(audioFile)

----------------------------------------------------------------------------
(* The session with overlapping handlers: nothing in the code keeps a second
   handler from starting while one is suspended (the New button and the Enter
   key of the word input stay enabled).  The inputs are fewer than in Spec:
   no clicks on words and no waveform events. *)

MaxRacing == 2

MayRace == Cardinality(inflight) < MaxRacing

\* what findSpecificWords can resolve to: nothing, a match, or a match whose
\* end is before its start (the response is JSON.parse'd and not validated)
RaceSearchResults(word) ==
    { <<>>,
      <<PIIItem(word, "User Specified", 3, 7)>>,
      <<PIIItem(word, "User Specified", 7, 3)>> }

NextRace ==
    \/ \E f \in Files : MayRace /\ UploadStart(f)
    \/ \E o \in inflight : UploadDecoded(o)
    \/ \E o \in inflight : UploadFailed(o)
    \/ MayRace /\ AnalysisStart
    \/ \E o \in inflight, r \in DetectResults : AnalysisSucceeded(o, r)
    \/ \E o \in inflight : AnalysisFailed(o)
    \/ MayRace /\ SearchStart(WordA)
    \/ \E o \in inflight : \E d \in RaceSearchResults(o.word) : SearchResolved(o, d)
    \/ \E o \in inflight : SearchFailed(o)
    \/ removeOmittedWord(WordA)
    \/ RevertToOriginal
    \/ MayRace /\ PreviewStart
    \/ \E o \in inflight : PreviewReady(o)
    \/ MayRace /\ ExportStart
    \/ \E o \in inflight : ExportReady(o)

SpecRace == Init /\ [][NextRace]_vars

----------------------------------------------------------------------------
(* Properties of the session with overlapping handlers (checked under SpecRace) *)

\* C14: in every reachable state every segment of the list has 0 <= start < end.
C14_SegmentsWellFormed ==
    \A n \in 1..Len(segments) :
        0 <= segments[n].start /\ segments[n].start < segments[n].end

\* a word search was answered with a match that ends before it starts
C14_Witness ==
    \E n \in 1..Len(segments) :
        /\ segments[n].label.kind = "Omit"
        /\ segments[n].start >= segments[n].end

----------------------------------------------------------------------------
(* Further properties of the editing session (checked under Spec) *)

\* a step in which an automated analysis succeeds
IsAnalysisSuccess ==
    \E o \in inflight, r \in DetectResults : AnalysisSucceeded(o, r)

\* C15: every step in which an automated analysis succeeds keeps, unchanged, every
\* manual segment and every word-search segment (label Omit: w) of the list.
C15_AnalysisKeepsOthers ==
    [][ IsAnalysisSuccess =>
            \A k \in 1..Len(segments) :
                (segments[k].type = "manual" \/ segments[k].label.kind = "Omit")
                    => Member(segments', segments[k]) ]_vars

\* an automated analysis is in flight while the list holds a segment found for an
\* omitted word
C15_Witness ==
    /\ \E o \in inflight : o.op = "analysis"
    /\ \E k \in 1..Len(segments) :
           /\ segments[k].label.kind = "Omit"
           /\ InList(omittedWordList, segments[k].label.word)

----------------------------------------------------------------------------
(* Further properties of the session with overlapping handlers (SpecRace) *)

\* the suspended analysis or word search was started for a file that is no longer
\* the session's: another file has been uploaded since
IsOfPreviousFile(o) ==
    /\ o.op \in {"analysis", "search"}
    /\ o.file # audioFile

\* the step delivers the result of the suspended analysis or word search
Delivers(o) ==
    \/ \E r \in DetectResults : AnalysisSucceeded(o, r)
    \/ \E d \in RaceSearchResults(o.word) : SearchResolved(o, d)

\* C16: a step that delivers the result of an analysis or a word search of a
\* previous file adds no segment, sets no transcript and adds no omitted word.
C16_LateResultDropped ==
    [][ \A o \in inflight :
            (IsOfPreviousFile(o) /\ Delivers(o)) =>
                /\ \A k \in 1..Len(segments') : Member(segments, segments'[k])
                /\ transcript' = transcript
                /\ omittedWordList' = omittedWordList ]_vars

\* a file is being uploaded while an analysis or a word search of the previous
\* file is still in flight
C16_Witness ==
    /\ \E o \in inflight : IsOfPreviousFile(o)
    /\ \E o \in inflight : o.op = "upload" /\ o.file = audioFile

----------------------------------------------------------------------------
(* Further properties of the editing session (checked under Spec) *)

\* the buffer maskAudioBuffer gives for the original buffer and a segment list
MaskedWith(segs) ==
    LET r == maskAudioBuffer(heap, originalBuffer, Spans(segs))
    IN  r.heap[r.ref]

\* C17: in every step in which a preview or an export produces its audio, the
\* audio is the original silenced by the segments the list holds at that moment.
C17_OutputUsesCurrentSegments ==
    [][ IsMaskingStep => maskedOut' = MaskedWith(segments) ]_vars

\* a preview or an export waits for its timer and the list is no longer the one
\* it was when the button was clicked
C17_Witness ==
    \E o \in inflight :
        /\ o.op \in {"preview", "export"}
        /\ o.segs # Spans(segments)

\* the segments the word search for the word created: type AI, label Omit: word
FoundFor(sg, word) == sg.label.kind = "Omit" /\ sg.label.word = word

\* C18: every step that removes an omitted word w takes w, and only w, out of the
\* omitted-word list and takes out of the segment list exactly the segments the
\* search for w created, leaving every other segment in place and unchanged.
C18_RemoveOmittedWordExact ==
    [][ \A w \in SearchWords :
            removeOmittedWord(w) =>
                /\ omittedWordList' = SelectSeq(omittedWordList, LAMBDA x : x # w)
                /\ segments' = SelectSeq(segments, LAMBDA sg : ~FoundFor(sg, w)) ]_vars

\* the omitted-word list holds a word and a longer word that starts with it, each
\* with a segment found for it
C18_Witness ==
    /\ InList(omittedWordList, WordA) /\ InList(omittedWordList, WordAB)
    /\ \E k \in 1..Len(segments) : FoundFor(segments[k], WordA)
    /\ \E k \in 1..Len(segments) : FoundFor(segments[k], WordAB)

----------------------------------------------------------------------------
(* Further properties of the session with overlapping handlers (SpecRace) *)

\* the automated analyses, word searches, previews and exports in flight
Operations == { o \in inflight : o.op \in {"analysis", "search", "preview", "export"} }

\* C19: in every reachable state the mode is PROCESSING whenever an analysis, a
\* word search, a preview or an export is in flight, at most one of them is in
\* flight, and no word is twice in the omitted-word list.
C19_OneOperationAtATime ==
    /\ Operations # {} => mode = "PROCESSING"
    /\ Cardinality(Operations) <= 1
    /\ \A i \in 1..Len(omittedWordList), j \in 1..Len(omittedWordList) :
           omittedWordList[i] = omittedWordList[j] => i = j

\* the same word is twice in the omitted-word list
C19_Witness ==
    \E i \in 1..Len(omittedWordList), j \in 1..Len(omittedWordList) :
        i < j /\ omittedWordList[i] = omittedWordList[j]

============================================================================
